---- MODULE Spec2Model ----
(***************************************************************************)
(* AzureDocumentIntelligenceClient: reconstruction of per-page HTML-       *)
(* annotated text from a document-analysis result                          *)
(* (code/backend/batch/utilities/helpers/                                  *)
(*  azure_document_intelligence_helper.py).                                *)
(*                                                                         *)
(* Representation.  A Python string that the code builds by appending is   *)
(* a sequence of pieces, one TLA+ string per appended fragment; the Python *)
(* string is the concatenation of the pieces (Flat) and its len() is the   *)
(* sum of the pieces' lengths (StrLen).  The document content is a         *)
(* sequence of one-character strings; a Python index i is position i+1.    *)
(* An optional value (None or x) is <<>> or <<x>>.  A dict is a function   *)
(* whose DOMAIN is its key set.                                            *)
(***************************************************************************)
EXTENDS Integers, Sequences, FiniteSets, TLC

\* ------------------------------------------------------------- bounds
ContentLen == 4
MaxPages == 2
MaxRows == 2
MaxCol == 1
MaxSpan == 2

\* ------------------------------------------------------------ helpers
None == <<>>
Some(x) == <<x>>

Alphabet == <<"a", "b", "c", "d", "e", "f", "g", "h">>

RECURSIVE Flat(_)
Flat(pieces) ==
    IF pieces = <<>> THEN "" ELSE Head(pieces) \o Flat(Tail(pieces))

RECURSIVE StrLen(_)
StrLen(pieces) ==
    IF pieces = <<>> THEN 0 ELSE Len(Head(pieces)) + StrLen(Tail(pieces))

RECURSIVE Concat(_)
Concat(seqs) ==
    IF seqs = <<>> THEN <<>> ELSE Head(seqs) \o Concat(Tail(seqs))

Put(d, k, v) == [x \in (DOMAIN d) \cup {k} |-> IF x = k THEN v ELSE d[x]]

\* ------------------------------------------- form_recognizer_role_to_html
form_recognizer_role_to_html ==
    [title |-> Some("h1"),
     sectionHeading |-> Some("h2"),
     pageHeader |-> None,
     pageFooter |-> None,
     paragraph |-> Some("p")]

RoleGetAnyRole(role) == Some(role)

\* form_recognizer_role_to_html.get(role)
RoleGet(role) ==
    IF role \in DOMAIN form_recognizer_role_to_html
    THEN form_recognizer_role_to_html[role]
    ELSE None

\* ----------------------------------------------------------- _table_to_html
\* html.escape of one character (quote=True)
EscapeChar(c) ==
    CASE c = "&" -> "&amp;"
      [] c = "<" -> "&lt;"
      [] c = ">" -> "&gt;"
      [] c = "\"" -> "&quot;"
      [] c = "'" -> "&#x27;"
      [] OTHER -> c

HtmlEscape(chars) == [k \in 1..Len(chars) |-> EscapeChar(chars[k])]

CellTagAlwaysTd(cell) == "td"

CellTag(cell) == IF cell.kind = Some("columnHeader") THEN "th" ELSE "td"

CellSpansFromOne(cell) ==
    (IF cell.column_span # None /\ cell.column_span[1] >= 1
     THEN " colspan=\"" \o ToString(cell.column_span[1]) \o "\"" ELSE "")
    \o
    (IF cell.row_span # None /\ cell.row_span[1] >= 1
     THEN " rowspan=\"" \o ToString(cell.row_span[1]) \o "\"" ELSE "")

CellSpans(cell) ==
    (IF cell.column_span # None /\ cell.column_span[1] > 1
     THEN " colspan=\"" \o ToString(cell.column_span[1]) \o "\"" ELSE "")
    \o
    (IF cell.row_span # None /\ cell.row_span[1] > 1
     THEN " rowspan=\"" \o ToString(cell.row_span[1]) \o "\"" ELSE "")

\* f"<{tag}{cell_spans}>{html.escape(cell.content)}</{tag}>"
CellHtml(cell) ==
    << "<" \o CellTag(cell) \o CellSpans(cell) \o ">" >>
    \o HtmlEscape(cell.content)
    \o << "</" \o CellTag(cell) \o ">" >>

\* sorted(..., key=column_index): a stable sort
RECURSIVE InsertByColumn(_, _)
InsertByColumn(sorted, cell) ==
    IF sorted = <<>> THEN <<cell>>
    ELSE IF Head(sorted).column_index <= cell.column_index
         THEN <<Head(sorted)>> \o InsertByColumn(Tail(sorted), cell)
         ELSE <<cell>> \o sorted

RECURSIVE SortByColumn(_)
SortByColumn(cells) ==
    IF cells = <<>> THEN <<>>
    ELSE InsertByColumn(SortByColumn(SubSeq(cells, 1, Len(cells) - 1)),
                        cells[Len(cells)])

RowFilterUnsorted(t, i) ==
    LET InRow(c) == c.row_index = i IN SelectSeq(t.cells, InRow)

\* sorted([cell for cell in table.cells if cell.row_index == i], key=...)
RowFilter(t, i) ==
    LET InRow(c) == c.row_index = i IN SortByColumn(SelectSeq(t.cells, InRow))

\* rows = [ ... for i in range(table.row_count)]
TableRows(t) == [r \in 1..t.row_count |-> RowFilter(t, r - 1)]

\* one iteration of "for row_cells in rows"
RowHtml(row_cells) ==
    <<"<tr>">>
    \o Concat([k \in 1..Len(row_cells) |-> CellHtml(row_cells[k])])
    \o <<"</tr>">>

TableToHtml(t) ==
    LET row_list == TableRows(t) IN
    <<"<table>">>
    \o Concat([r \in 1..Len(row_list) |-> RowHtml(row_list[r])])
    \o <<"</table>">>

\* ------------------------------------------- begin_analyze_document_from_url
VARIABLES
    use_layout,                     \* parameter
    model_id,                       \* "prebuilt-layout" or "prebuilt-read"
    document_intelligence_results,  \* what poller.result() yields for the URL
    pc,                             \* position in the call
    roles_start, roles_end,         \* offset -> role dicts
    page_num,                       \* index of the next page of the loop
    offset,                         \* running offset
    page_map,                       \* records appended so far
    outcome,                        \* what the caller gets
    table, table_html, rows, tpc    \* locals of a _table_to_html call

vars == <<use_layout, model_id, document_intelligence_results, pc,
          roles_start, roles_end, page_num, offset, page_map, outcome,
          table, table_html, rows, tpc>>

callVars == <<use_layout, model_id, document_intelligence_results, pc,
              roles_start, roles_end, page_num, offset, page_map, outcome>>

tableVars == <<table, table_html, rows, tpc>>

NoTable == -1

ModelId(layout) == IF layout THEN "prebuilt-layout" ELSE "prebuilt-read"

\* paragraph.role if paragraph.role is not None else "paragraph"
ParaRole(p) == IF p.role # None THEN p.role[1] ELSE "paragraph"

ParaSpanLast(p) == p.spans[Len(p.spans)]

\* paragraph.spans[0]
ParaSpan(p) == p.spans[1]

DictSetIfAbsent(d, k, v) == IF k \in DOMAIN d THEN d ELSE Put(d, k, v)

\* d[k] = v
DictSet(d, k, v) == Put(d, k, v)

\* the loop over paragraphs: the pair of dicts after the first n paragraphs
RECURSIVE IndexRolesOf(_, _)
IndexRolesOf(paragraphs, n) ==
    IF n = 0 THEN [start |-> <<>>, end |-> <<>>]
    ELSE LET prev == IndexRolesOf(paragraphs, n - 1)
             p == paragraphs[n]
             para_start == ParaSpan(p).offset
             para_end == ParaSpan(p).offset + ParaSpan(p).length
         IN [start |-> DictSet(prev.start, para_start, ParaRole(p)),
             end |-> DictSet(prev.end, para_end, ParaRole(p))]

\* hasattr(results, 'paragraphs') and results.paragraphs
RoleDicts(res) ==
    IF res.paragraphs # None /\ res.paragraphs[1] # <<>>
    THEN IndexRolesOf(res.paragraphs[1], Len(res.paragraphs[1]))
    ELSE [start |-> <<>>, end |-> <<>>]

OnPageAnyRegion(t, n) ==
    \E k \in 1..Len(t.bounding_regions) : t.bounding_regions[k].page_number = n + 1

\* table.bounding_regions[0].page_number == page_num + 1
OnPage(t, n) == t.bounding_regions[1].page_number = n + 1

TablesOnPage(res, n) ==
    IF res.tables # None /\ res.tables[1] # <<>>
    THEN LET Sel(t) == OnPage(t, n) IN SelectSeq(res.tables[1], Sel)
    ELSE <<>>

InPageNoUpper(idx, page_length) == idx >= 0

\* idx >= 0 and idx < page_length
InPage(idx, page_length) == idx >= 0 /\ idx < page_length

\* for i in range(span.length): ... table_chars[idx] = table_id
RECURSIVE MarkSpan(_, _, _, _, _)
MarkSpan(chars, span, page_offset, table_id, i) ==
    IF i >= span.length THEN chars
    ELSE LET idx == span.offset - page_offset + i
             marked == IF InPage(idx, Len(chars))
                       THEN [k \in 1..Len(chars) |->
                                IF k = idx + 1 THEN table_id ELSE chars[k]]
                       ELSE chars
         IN MarkSpan(marked, span, page_offset, table_id, i + 1)

\* for span in table.spans
RECURSIVE MarkTable(_, _, _, _, _)
MarkTable(chars, spans, page_offset, table_id, n) ==
    IF n > Len(spans) THEN chars
    ELSE MarkTable(MarkSpan(chars, spans[n], page_offset, table_id, 0),
                   spans, page_offset, table_id, n + 1)

\* for table_id, table in enumerate(tables_on_page)
RECURSIVE MarkTables(_, _, _, _)
MarkTables(chars, tables_on_page, page_offset, table_id) ==
    IF table_id >= Len(tables_on_page) THEN chars
    ELSE MarkTables(MarkTable(chars, tables_on_page[table_id + 1].spans,
                              page_offset, table_id, 1),
                    tables_on_page, page_offset, table_id + 1)

\* table_chars = [-1] * page_length, then the marking loops
TableChars(page, tables_on_page) ==
    MarkTables([k \in 1..page.spans[1].length |-> NoTable], tables_on_page,
               page.spans[1].offset, 0)

RoleOpen(rs, position) ==
    IF position \in DOMAIN rs
    THEN LET html_role == RoleGet(rs[position])
         IN IF html_role # None THEN << "<" \o html_role[1] \o ">" >> ELSE <<>>
    ELSE <<>>

RoleClose(re, position) ==
    IF position \in DOMAIN re
    THEN LET html_role == RoleGet(re[position])
         IN IF html_role # None THEN << "</" \o html_role[1] \o ">" >> ELSE <<>>
    ELSE <<>>

NotAddedAlways(table_id, added_tables) == TRUE

\* elif table_id not in added_tables
NotAdded(table_id, added_tables) == table_id \notin added_tables

CoveredEmitsChar(ctx, st, idx) ==
    IF ctx.page_offset + idx < Len(ctx.content)
    THEN [st EXCEPT !.page_text = @ \o <<ctx.content[ctx.page_offset + idx + 1]>>]
    ELSE st

\* a covered index whose table is already in added_tables: nothing is appended
CoveredAgain(ctx, st, idx) == st

\* one iteration of "for idx, table_id in enumerate(table_chars)"
ScanIndex(ctx, st, idx) ==
    LET table_id == ctx.table_chars[idx + 1] IN
    IF table_id = NoTable
    THEN LET position == ctx.page_offset + idx IN
         IF position >= Len(ctx.content)
         THEN [st EXCEPT !.raised = TRUE,
                         !.page_text = @ \o RoleOpen(ctx.roles_start, position)
                                         \o RoleClose(ctx.roles_end, position)]
         ELSE [st EXCEPT !.page_text = @ \o RoleOpen(ctx.roles_start, position)
                                         \o RoleClose(ctx.roles_end, position)
                                         \o <<ctx.content[position + 1]>>]
    ELSE IF NotAdded(table_id, st.added_tables)
         THEN [st EXCEPT !.page_text =
                            @ \o TableToHtml(ctx.tables_on_page[table_id + 1]),
                         !.added_tables = @ \cup {table_id}]
         ELSE CoveredAgain(ctx, st, idx)

RECURSIVE Scan(_, _, _)
Scan(ctx, st, idx) ==
    IF idx >= Len(ctx.table_chars) \/ st.raised THEN st
    ELSE Scan(ctx, ScanIndex(ctx, st, idx), idx + 1)

PageSeparatorNone == <<>>

\* page_text += " "
PageSeparator == <<" ">>

\* the body of the page loop up to the separator, for page number n
PageScan(res, rs, re, n) ==
    LET page == res.pages[n + 1]
        tables_on_page == TablesOnPage(res, n)
        ctx == [content |-> res.content,
                roles_start |-> rs, roles_end |-> re,
                page_offset |-> page.spans[1].offset,
                table_chars |-> TableChars(page, tables_on_page),
                tables_on_page |-> tables_on_page]
    IN Scan(ctx, [page_text |-> <<>>, added_tables |-> {}, raised |-> FALSE], 0)

NextOffsetNoSeparator(off, page_text) == off + StrLen(page_text) - 1

\* offset += len(page_text)
NextOffset(off, page_text) == off + StrLen(page_text)

ReturnedPartial(pm, e) == [kind |-> "return", value |-> pm, cause |-> Some(e)]

\* raise ValueError(...) from e
Raised(pm, e) == [kind |-> "raise", value |-> <<>>, cause |-> Some(e)]

Returned(pm) == [kind |-> "return", value |-> pm, cause |-> None]

Pending == [kind |-> "pending", value |-> <<>>, cause |-> None]

\* ------------------------------------------------------------- inputs
Content == SubSeq(Alphabet, 1, ContentLen)

SpanRec(o, l) == [offset |-> o, length |-> l]

\* non-empty spans inside the content
InnerSpans ==
    UNION {{SpanRec(o, l) : l \in 1..(ContentLen - o)} : o \in 0..(ContentLen - 1)}

\* one span, or two discontiguous spans in reading order
SpanLists ==
    {<<s>> : s \in InnerSpans}
    \cup UNION {{<<s, u>> : u \in {v \in InnerSpans : s.offset + s.length < v.offset}}
               : s \in InnerSpans}

RECURSIVE SumTo(_, _)
SumTo(ls, j) == IF j = 0 THEN 0 ELSE ls[j] + SumTo(ls, j - 1)

\* pages that partition the content (a blank page has length 0); the last
\* page's span exceeds the content by `over` characters
Layout(ls, over) ==
    [j \in 1..Len(ls) |->
        [spans |-> <<SpanRec(SumTo(ls, j - 1),
                             ls[j] + (IF j = Len(ls) THEN over ELSE 0))>>]]

PageLengths ==
    UNION {{ls \in [1..k -> 0..ContentLen] : SumTo(ls, k) = ContentLen}
           : k \in 1..MaxPages}

Layouts(over) == {Layout(ls, over) : ls \in PageLengths}

\* a long first page and one-character pages after it
LongFirstLayout ==
    LET ls == [j \in 1..MaxPages |->
                 IF j = 1 THEN ContentLen - (MaxPages - 1) ELSE 1]
    IN Layout(ls, 0)

AllRoles ==
    {None, Some("title"), Some("sectionHeading"), Some("pageHeader"),
     Some("pageFooter"), Some("paragraph"), Some("footnote")}

SomeRoles == {None, Some("title"), Some("pageHeader"), Some("footnote")}

Para(r, sp) == [role |-> r, spans |-> sp]

WholeSpan == SpanRec(0, ContentLen)

ParasWithExtraSpans ==
    {Para(r, sp) : r \in AllRoles,
                   sp \in {<<s>> : s \in InnerSpans}
                          \cup {<<s, WholeSpan>> : s \in InnerSpans}}

ParasOneSpan == {Para(r, <<s>>) : r \in SomeRoles, s \in InnerSpans}

TitleParas == {Para(Some("title"), <<s>>) : s \in InnerSpans}

Cell(r, c, k, cs, rs, txt) ==
    [row_index |-> r, column_index |-> c, kind |-> k,
     column_span |-> cs, row_span |-> rs, content |-> txt]

CellsA == <<Cell(0, 0, Some("columnHeader"), None, None, <<"A">>)>>

CellsB == <<Cell(0, 1, Some("content"), None, None, <<"B">>),
            Cell(0, 0, Some("content"), Some(2), None, <<"<">>)>>

TableRec(rc, cells, regions, spans) ==
    [row_count |-> rc, cells |-> cells,
     bounding_regions |-> [k \in 1..Len(regions) |-> [page_number |-> regions[k]]],
     spans |-> spans]

OneRegion == {<<p>> : p \in 1..MaxPages}

Regions ==
    OneRegion
    \cup UNION {{<<p, q>> : q \in (1..MaxPages) \ {p}} : p \in 1..MaxPages}

Doc(pages, tables, paragraphs) ==
    [content |-> Content, pages |-> pages, tables |-> tables,
     paragraphs |-> paragraphs]

\* no tables and no paragraphs: the collections absent or empty
PlainDocs ==
    {Doc(pg, t, p) : pg \in Layouts(0) \cup Layouts(1),
                     t \in {None, Some(<<>>)}, p \in {None, Some(<<>>)}}

\* one paragraph of any role, possibly with a second span
OneParaDocs ==
    {Doc(pg, None, Some(<<p>>)) : pg \in Layouts(0), p \in ParasWithExtraSpans}

\* two paragraphs, in either order of their spans
TwoParaDocs ==
    {Doc(LongFirstLayout, None, Some(<<p, q>>)) : p \in ParasOneSpan, q \in ParasOneSpan}

\* one table, with or without a paragraph
OneTableDocs ==
    {Doc(LongFirstLayout, Some(<<TableRec(1, CellsA, rg, sp)>>), p) :
        rg \in Regions, sp \in SpanLists,
        p \in {None} \cup {Some(<<q>>) : q \in TitleParas}}

\* two tables
TwoTableDocs ==
    {Doc(LongFirstLayout,
         Some(<<TableRec(1, CellsA, r1, s1), TableRec(1, CellsB, r2, s2)>>),
         None) :
        r1 \in OneRegion, s1 \in SpanLists, r2 \in OneRegion, s2 \in SpanLists}

LayoutDocs == OneParaDocs \cup TwoParaDocs \cup OneTableDocs \cup TwoTableDocs

NoCall == [row_count |-> 0, cells |-> <<>>]

InitCall(docs, layouts) ==
    /\ document_intelligence_results \in docs
    /\ use_layout \in layouts
    /\ model_id = ModelId(use_layout)
    /\ pc = "start"
    /\ roles_start = <<>>
    /\ roles_end = <<>>
    /\ page_num = 0
    /\ offset = 0
    /\ page_map = <<>>
    /\ outcome = Pending
    /\ table = NoCall
    /\ table_html = <<>>
    /\ rows = <<>>
    /\ tpc = "idle"

\* prebuilt-read yields neither tables nor roles; prebuilt-layout may
Init ==
    \/ InitCall(PlainDocs, BOOLEAN)
    \/ InitCall(LayoutDocs, {TRUE})

\* ------------------------------------------------------------ actions
\* lines 91-94: the request is submitted and polled to its result
Analyze ==
    /\ pc = "start"
    /\ pc' = "roles"
    /\ UNCHANGED <<use_layout, model_id, document_intelligence_results,
                   roles_start, roles_end, page_num, offset, page_map, outcome>>
    /\ UNCHANGED tableVars

\* lines 91-94 raise: the except clause wraps the error
AnalyzeFails ==
    /\ pc = "start"
    /\ pc' = "raised"
    /\ outcome' = Raised(page_map, "ServiceError")
    /\ UNCHANGED <<use_layout, model_id, document_intelligence_results,
                   roles_start, roles_end, page_num, offset, page_map>>
    /\ UNCHANGED tableVars

\* lines 97-109
IndexRoles ==
    /\ pc = "roles"
    /\ roles_start' = RoleDicts(document_intelligence_results).start
    /\ roles_end' = RoleDicts(document_intelligence_results).end
    /\ pc' = "pages"
    /\ UNCHANGED <<use_layout, model_id, document_intelligence_results,
                   page_num, offset, page_map, outcome>>
    /\ UNCHANGED tableVars

\* lines 111-159: one iteration of the page loop
ReconstructPage ==
    /\ pc = "pages"
    /\ page_num < Len(document_intelligence_results.pages)
    /\ LET st == PageScan(document_intelligence_results, roles_start, roles_end,
                          page_num)
           page_text == st.page_text \o PageSeparator
       IN /\ ~st.raised
          /\ page_map' = Append(page_map, [page_number |-> page_num,
                                           offset |-> offset,
                                           page_text |-> page_text])
          /\ offset' = NextOffset(offset, page_text)
    /\ page_num' = page_num + 1
    /\ UNCHANGED <<use_layout, model_id, document_intelligence_results, pc,
                   roles_start, roles_end, outcome>>
    /\ UNCHANGED tableVars

\* line 149 raises IndexError: the except clause wraps the error
ReconstructPageFails ==
    /\ pc = "pages"
    /\ page_num < Len(document_intelligence_results.pages)
    /\ PageScan(document_intelligence_results, roles_start, roles_end,
                page_num).raised
    /\ pc' = "raised"
    /\ outcome' = Raised(page_map, "IndexError")
    /\ UNCHANGED <<use_layout, model_id, document_intelligence_results,
                   roles_start, roles_end, page_num, offset, page_map>>
    /\ UNCHANGED tableVars

\* line 161
Return ==
    /\ pc = "pages"
    /\ page_num = Len(document_intelligence_results.pages)
    /\ pc' = "returned"
    /\ outcome' = Returned(page_map)
    /\ UNCHANGED <<use_layout, model_id, document_intelligence_results,
                   roles_start, roles_end, page_num, offset, page_map>>
    /\ UNCHANGED tableVars

Next ==
    \/ Analyze
    \/ AnalyzeFails
    \/ IndexRoles
    \/ ReconstructPage
    \/ ReconstructPageFails
    \/ Return

Spec == Init /\ [][Next]_vars

\* ------------------------------------------ reading a result (for the claims)
Res == document_intelligence_results

Out == outcome.value

Tables == IF Res.tables = None THEN <<>> ELSE Res.tables[1]

Paras == IF Res.paragraphs = None THEN <<>> ELSE Res.paragraphs[1]

PageNums == 0..(Len(Res.pages) - 1)

PageOffset(n) == Res.pages[n + 1].spans[1].offset

PageLength(n) == Res.pages[n + 1].spans[1].length

\* the absolute offsets of page n
PagePositions(n) == PageOffset(n)..(PageOffset(n) + PageLength(n) - 1)

Covers(t, pos) ==
    \E k \in 1..Len(t.spans) :
        t.spans[k].offset <= pos /\ pos < t.spans[k].offset + t.spans[k].length

\* the tables (indices into Tables) whose first bounding region names page n
SelectedOn(n) ==
    {k \in 1..Len(Tables) : Tables[k].bounding_regions[1].page_number = n + 1}

CoveredOn(n, pos) == \E k \in SelectedOn(n) : Covers(Tables[k], pos)

\* positions of page n that the spans of table k overlap
OverlapOn(n, k) == {pos \in PagePositions(n) : Covers(Tables[k], pos)}

\* positions of page n left to table k once every selected table is marked
OwnedOn(n, k) ==
    {pos \in OverlapOn(n, k) :
        \A m \in SelectedOn(n) : m > k => ~Covers(Tables[m], pos)}

SetMin(S) == CHOOSE x \in S : \A y \in S : x <= y

ContentChars == {Content[k] : k \in 1..Len(Content)}

IsChar(piece) == piece \in ContentChars

RoleMarkup == {"<h1>", "</h1>", "<h2>", "</h2>", "<p>", "</p>"}

OpeningMarkup == {"<h1>", "<h2>", "<p>"}

ClosingMarkup == {"</h1>", "</h2>", "</p>"}

CharAt(pos) == Content[pos + 1]

EmittedIn(text, pos) == \E j \in 1..Len(text) : text[j] = CharAt(pos)

IndexIn(text, pos) == CHOOSE j \in 1..Len(text) : text[j] = CharAt(pos)

\* the pieces between the previous character (or table block) and piece j
RECURSIVE RunStart(_, _)
RunStart(text, j) ==
    IF j > 1 /\ text[j - 1] \in RoleMarkup THEN RunStart(text, j - 1) ELSE j

MarkupBefore(text, pos) ==
    LET j == IndexIn(text, pos) IN SubSeq(text, RunStart(text, j), j - 1)

Occurrences(text, block) ==
    Cardinality({j \in 1..(Len(text) - Len(block) + 1) :
                    SubSeq(text, j, j + Len(block) - 1) = block})

BlockStart(text, block) ==
    CHOOSE j \in 1..(Len(text) - Len(block) + 1) :
        SubSeq(text, j, j + Len(block) - 1) = block

CharsBefore(text, j) == Cardinality({m \in 1..(j - 1) : IsChar(text[m])})

CharsOf(text) == SelectSeq(text, IsChar)

\* the tag of a role as the role table gives it
TagOf(role) ==
    CASE role = Some("title") -> Some("h1")
      [] role = Some("sectionHeading") -> Some("h2")
      [] role = Some("paragraph") -> Some("p")
      [] role = None -> Some("p")
      [] OTHER -> None

FirstStart(i) == Paras[i].spans[1].offset

FirstEnd(i) == Paras[i].spans[1].offset + Paras[i].spans[1].length

LastStartingAt(i) == \A m \in 1..Len(Paras) : m > i => FirstStart(m) # FirstStart(i)

LastEndingAt(i) == \A m \in 1..Len(Paras) : m > i => FirstEnd(m) # FirstEnd(i)

SetMax(S) == CHOOSE x \in S : \A y \in S : y <= x

OpeningAt(pos) ==
    LET S == {i \in 1..Len(Paras) : FirstStart(i) = pos} IN
    IF S = {} \/ TagOf(Paras[SetMax(S)].role) = None THEN <<>>
    ELSE << "<" \o TagOf(Paras[SetMax(S)].role)[1] \o ">" >>

ClosingAt(pos) ==
    LET S == {i \in 1..Len(Paras) : FirstEnd(i) = pos} IN
    IF S = {} \/ TagOf(Paras[SetMax(S)].role) = None THEN <<>>
    ELSE << "</" \o TagOf(Paras[SetMax(S)].role)[1] \o ">" >>

NoCollection(c) == c = None \/ c = Some(<<>>)

PageOverruns(n) == PageOffset(n) + PageLength(n) > Len(Res.content)

\* ------------------------------------------------------------- claims
\* C1: in the page map of a successful call (and in the map built so far) the
\* first record has offset 0 and each next record's offset is the previous
\* offset plus the length of the previous page_text, so offsets never
\* decrease.
C1_OffsetsAccumulate ==
    /\ pc = "returned" => Out = page_map
    /\ page_map # <<>> => page_map[1].offset = 0
    /\ \A i \in 1..(Len(page_map) - 1) :
          /\ page_map[i + 1].offset
               = page_map[i].offset + Len(Flat(page_map[i].page_text))
          /\ page_map[i + 1].offset >= page_map[i].offset

C1_Witness ==
    /\ pc = "returned"
    /\ Len(Out) >= 2
    /\ \E i \in 1..Len(Out) :
          /\ Occurrences(Out[i].page_text, <<"<table>">>) = 1
          /\ Out[i].offset > 0

\* C6: a call that ends by the except clause raises one error that carries
\* the original exception as its cause and hands the caller no page record,
\* whatever was appended to the page map before; records reach the caller
\* only by the return after the last page.
C6_AllOrNothing ==
    /\ pc = "raised" =>
          /\ outcome.kind = "raise"
          /\ outcome.value = <<>>
          /\ outcome.cause \in {Some("ServiceError"), Some("IndexError")}
          /\ outcome.cause = Some("ServiceError") => page_map = <<>>
          /\ outcome.cause = Some("IndexError") =>
                /\ page_num \in PageNums
                /\ PageOverruns(page_num)
                /\ Len(page_map) = page_num
    /\ pc # "raised" => outcome.cause = None
    /\ pc \notin {"raised", "returned"} => outcome = Pending
    /\ pc = "returned" =>
          /\ outcome.kind = "return"
          /\ Len(outcome.value) = Len(Res.pages)

C6_Witness ==
    /\ pc = "raised"
    /\ outcome.cause = Some("IndexError")
    /\ page_map # <<>>

\* C7: when the result has neither tables nor paragraphs (absent or empty),
\* for either use_layout, a call that returns yields one record per page, in
\* order, record i numbered i from 0, whose page_text is the page's substring
\* of the content followed by one space; such a call fails only when the
\* service fails or a page's span exceeds the content.
C7_PlainText ==
    (NoCollection(Res.tables) /\ NoCollection(Res.paragraphs)) =>
        /\ pc = "returned" =>
              /\ Len(Out) = Len(Res.pages)
              /\ \A i \in 1..Len(Out) :
                    /\ Out[i].page_number = i - 1
                    /\ Out[i].page_text
                         = SubSeq(Res.content, PageOffset(i - 1) + 1,
                                  PageOffset(i - 1) + PageLength(i - 1))
                           \o <<" ">>
        /\ pc = "raised" =>
              \/ outcome.cause = Some("ServiceError")
              \/ \E n \in PageNums : PageOverruns(n)

C7_Witness ==
    /\ pc = "returned"
    /\ ~use_layout
    /\ Res.tables = None
    /\ Res.paragraphs = Some(<<>>)
    /\ Len(Out) = MaxPages
    /\ \A i \in 1..Len(Out) : Len(Out[i].page_text) >= 2

\* C10: in a returned page, the content characters of page_text are exactly
\* those of the indices no span of a selected table covers, in increasing
\* index order; a covered index gives no character and no role tag (every
\* role tag stands in the run right before an uncovered index's character);
\* span positions outside the page are dropped: they raise nothing and every
\* page is scanned against its own range only.
C10_ScanSkipsCovered ==
    /\ pc = "returned" =>
          \A n \in PageNums :
             LET text == Out[n + 1].page_text
                 IsFree(c) == \E pos \in PagePositions(n) :
                                 c = CharAt(pos) /\ ~CoveredOn(n, pos)
             IN /\ CharsOf(text)
                     = SelectSeq(SubSeq(Res.content, PageOffset(n) + 1,
                                        PageOffset(n) + PageLength(n)), IsFree)
                /\ \A j \in 1..Len(text) :
                      text[j] \in RoleMarkup =>
                         /\ j < Len(text)
                         /\ text[j + 1] \in RoleMarkup \/ IsChar(text[j + 1])
                /\ Cardinality({j \in 1..Len(text) : text[j] \in OpeningMarkup})
                     = Cardinality({pos \in PagePositions(n) :
                                      ~CoveredOn(n, pos) /\ OpeningAt(pos) # <<>>})
                /\ Cardinality({j \in 1..Len(text) : text[j] \in ClosingMarkup})
                     = Cardinality({pos \in PagePositions(n) :
                                      ~CoveredOn(n, pos) /\ ClosingAt(pos) # <<>>})
    /\ pc = "raised" =>
          \/ outcome.cause = Some("ServiceError")
          \/ PageOverruns(page_num)

C10_Witness ==
    /\ pc = "returned"
    /\ Len(Tables) = 1
    /\ Len(Paras) = 1
    /\ Tables[1].bounding_regions[1].page_number = 1
    /\ OverlapOn(0, 1) # {}
    /\ Cardinality(OverlapOn(0, 1)) >= 2
    /\ \E pos \in PagePositions(1) : Covers(Tables[1], pos)
    /\ FirstStart(1) \in OverlapOn(0, 1)
    /\ \A i \in 1..Len(Out) : \A j \in 1..Len(Out[i].page_text) :
          Out[i].page_text[j] \notin RoleMarkup

Block(k) == TableToHtml(Tables[k])

FreeBefore(n, pos) ==
    Cardinality({q \in PagePositions(n) : q < pos /\ ~CoveredOn(n, q)})

\* C2 (as stated): every table selected for a page is rendered exactly once
\* in that page's page_text, at the position of the first index of the page
\* that its spans overlap.
C2_EverySelectedTableOnce ==
    pc = "returned" =>
       \A n \in PageNums : \A k \in SelectedOn(n) :
          LET text == Out[n + 1].page_text IN
          /\ Occurrences(text, Block(k)) = 1
          /\ OverlapOn(n, k) # {}
          /\ CharsBefore(text, BlockStart(text, Block(k)))
               = FreeBefore(n, SetMin(OverlapOn(n, k)))

\* C2 (amended): a table selected for a page is rendered at most once in that
\* page's page_text; exactly once when its spans overlap an index of the page
\* that no later selected table's span covers, at the position of the first
\* such index (after the characters and blocks of lower indices, before those
\* of higher ones); and not at all otherwise.
C2_TableOnceWhereOwned ==
    pc = "returned" =>
       \A n \in PageNums : \A k \in SelectedOn(n) :
          LET text == Out[n + 1].page_text
              occ == Occurrences(text, Block(k))
          IN /\ occ <= 1
             /\ occ = 1 <=> OwnedOn(n, k) # {}
             /\ OwnedOn(n, k) # {} =>
                   /\ CharsBefore(text, BlockStart(text, Block(k)))
                        = FreeBefore(n, SetMin(OwnedOn(n, k)))
                   /\ \A m \in SelectedOn(n) \ {k} :
                         OwnedOn(n, m) # {} =>
                            (SetMin(OwnedOn(n, m)) < SetMin(OwnedOn(n, k))
                               <=> BlockStart(text, Block(m))
                                     < BlockStart(text, Block(k)))

C2_Witness ==
    /\ pc = "returned"
    /\ SelectedOn(0) = {1, 2}
    /\ Len(Tables[1].spans) = 2
    /\ \A j \in 1..2 : \E pos \in PagePositions(0) :
          /\ Tables[1].spans[j].offset <= pos
          /\ pos < Tables[1].spans[j].offset + Tables[1].spans[j].length
    /\ OwnedOn(0, 1) # {}
    /\ OwnedOn(0, 2) # {}
    /\ SetMin(OwnedOn(0, 1)) < SetMin(OwnedOn(0, 2))
    /\ Occurrences(Out[1].page_text, Block(1)) = 1
    /\ Occurrences(Out[1].page_text, Block(2)) = 1

\* C3 (as stated): for a paragraph whose role maps to a tag T and whose first
\* span [s, e) lies within a page that has no tables, the page_text has <T>
\* right before the character of offset s and </T> right after the character
\* of offset e-1.
C3_RoleWrapping ==
    pc = "returned" =>
       \A n \in PageNums : \A i \in 1..Len(Paras) :
          LET text == Out[n + 1].page_text
              tag == TagOf(Paras[i].role)
          IN (/\ SelectedOn(n) = {}
              /\ tag # None
              /\ PageOffset(n) <= FirstStart(i)
              /\ FirstEnd(i) <= PageOffset(n) + PageLength(n)) =>
                /\ \E j \in 1..(Len(text) - 1) :
                      /\ text[j] = "<" \o tag[1] \o ">"
                      /\ text[j + 1] = CharAt(FirstStart(i))
                /\ \E j \in 1..(Len(text) - 1) :
                      /\ text[j] = CharAt(FirstEnd(i) - 1)
                      /\ text[j + 1] = "</" \o tag[1] \o ">"

TablePieces ==
    UNION {{Block(k)[j] : j \in 1..Len(Block(k))} : k \in 1..Len(Tables)}

Tagless(i) == TagOf(Paras[i].role) = None

\* what C4 says of all emitted markup and of the text inside a paragraph
C4_MarkupAndText ==
    /\ LET known == ContentChars \cup {" "} \cup RoleMarkup \cup TablePieces IN
       \A n \in PageNums : \A j \in 1..Len(Out[n + 1].page_text) :
          Out[n + 1].page_text[j] \in known
    /\ \A n \in PageNums :
          LET text == Out[n + 1].page_text IN
          \A j \in 1..Len(text) :
                /\ text[j] \in OpeningMarkup =>
                      \E i \in 1..Len(Paras) :
                         /\ FirstStart(i) \in PagePositions(n)
                         /\ EmittedIn(text, FirstStart(i))
                         /\ RunStart(text, IndexIn(text, FirstStart(i))) <= j
                         /\ j < IndexIn(text, FirstStart(i))
                         /\ TagOf(Paras[i].role) # None
                         /\ text[j] = "<" \o TagOf(Paras[i].role)[1] \o ">"
                /\ text[j] \in ClosingMarkup =>
                      \E i \in 1..Len(Paras) :
                         /\ FirstEnd(i) \in PagePositions(n)
                         /\ EmittedIn(text, FirstEnd(i))
                         /\ RunStart(text, IndexIn(text, FirstEnd(i))) <= j
                         /\ j < IndexIn(text, FirstEnd(i))
                         /\ TagOf(Paras[i].role) # None
                         /\ text[j] = "</" \o TagOf(Paras[i].role)[1] \o ">"
    /\ \A i \in 1..Len(Paras) : \A n \in PageNums :
          \A pos \in PagePositions(n) :
             (FirstStart(i) <= pos /\ pos < FirstEnd(i) /\ ~CoveredOn(n, pos))
                => EmittedIn(Out[n + 1].page_text, pos)

HasOpening(text, pos) ==
    \E j \in 1..Len(MarkupBefore(text, pos)) :
       MarkupBefore(text, pos)[j] \in OpeningMarkup

HasClosing(text, pos) ==
    \E j \in 1..Len(MarkupBefore(text, pos)) :
       MarkupBefore(text, pos)[j] \in ClosingMarkup

C5_OnlyFirstRegionPage ==
    pc = "returned" =>
       \A k \in 1..Len(Tables) : \A n \in PageNums :
          Tables[k].bounding_regions[1].page_number # n + 1 =>
             /\ Occurrences(Out[n + 1].page_text, Block(k)) = 0
             /\ \A pos \in OverlapOn(n, k) : EmittedIn(Out[n + 1].page_text, pos)

\* C5 (amended): on such a page the page_text holds no rendering of the table
\* and every character the table's spans cover is emitted as text unless a
\* span of a table selected for that page covers it.
C5_OnlyFirstRegionPageUnlessCovered ==
    pc = "returned" =>
       \A k \in 1..Len(Tables) : \A n \in PageNums :
          Tables[k].bounding_regions[1].page_number # n + 1 =>
             /\ Occurrences(Out[n + 1].page_text, Block(k)) = 0
             /\ \A pos \in OverlapOn(n, k) :
                   EmittedIn(Out[n + 1].page_text, pos) <=> ~CoveredOn(n, pos)

C5_Witness ==
    /\ pc = "returned"
    /\ Len(Tables) = 1
    /\ Len(Tables[1].bounding_regions) = 2
    /\ Tables[1].bounding_regions[1].page_number = 1
    /\ Tables[1].bounding_regions[2].page_number = 2
    /\ OverlapOn(0, 1) # {}
    /\ OverlapOn(1, 1) # {}
    /\ Occurrences(Out[1].page_text, Block(1)) = 1
    /\ \A pos \in OverlapOn(1, 1) : EmittedIn(Out[2].page_text, pos)

\* C9: before the character of every emitted offset stand exactly the opening
\* tag of the last paragraph whose first span starts there and the closing
\* tag of the last paragraph whose first span ends there (each only if that
\* role maps to a tag): at most one of each, the later paragraph's, and from
\* first spans only.
C9_LastWriteWins ==
    pc = "returned" =>
       \A n \in PageNums : \A pos \in PagePositions(n) :
          LET text == Out[n + 1].page_text IN
          EmittedIn(text, pos) =>
             /\ MarkupBefore(text, pos) = OpeningAt(pos) \o ClosingAt(pos)
             /\ Cardinality({j \in 1..Len(MarkupBefore(text, pos)) :
                    MarkupBefore(text, pos)[j] \in OpeningMarkup}) <= 1
             /\ Cardinality({j \in 1..Len(MarkupBefore(text, pos)) :
                    MarkupBefore(text, pos)[j] \in ClosingMarkup}) <= 1

C9_Witness ==
    /\ pc = "returned"
    /\ Len(Paras) = 2
    /\ Paras[1].role = Some("title")
    /\ Paras[2].role = None
    /\ FirstStart(1) = FirstStart(2)
    /\ FirstEnd(1) = FirstEnd(2)
    /\ EmittedIn(Out[1].page_text, FirstStart(1))
    /\ EmittedIn(Out[1].page_text, FirstEnd(1))
    /\ MarkupBefore(Out[1].page_text, FirstStart(1)) = <<"<p>">>
    /\ MarkupBefore(Out[1].page_text, FirstEnd(1)) = <<"</p>">>

InitOnePara ==
    \/ InitCall(PlainDocs, BOOLEAN)
    \/ InitCall(OneParaDocs, {TRUE})

SpecOnePara == InitOnePara /\ [][Next]_vars

\* ------------------------------------------- a call of _table_to_html alone
Kinds == {None, Some("columnHeader"), Some("content")}

SpanValues == {None} \cup {Some(v) : v \in 1..MaxSpan}

RowIndexes == (-1)..MaxRows

ColumnIndexes == 0..MaxCol

TableOf(rc, cells) == [row_count |-> rc, cells |-> cells]

NoCellTables == {TableOf(rc, <<>>) : rc \in 0..MaxRows}

\* one cell of any kind and spans, in or outside the rows
OneCellTables ==
    {TableOf(rc, <<Cell(r, c, k, cs, rs, <<"x", "<">>)>>) :
        rc \in 0..MaxRows, r \in RowIndexes, c \in ColumnIndexes,
        k \in Kinds, cs \in SpanValues, rs \in SpanValues}

\* three cells, told apart by their rendering, in any rows and columns
ThreeCellTables ==
    {TableOf(rc, <<Cell(r1, c1, Some("columnHeader"), None, None, <<"A">>),
                   Cell(r2, c2, Some("content"), Some(2), Some(1), <<"B">>),
                   Cell(r3, c3, None, Some(1), Some(3), <<"&">>)>>) :
        rc \in 0..MaxRows,
        r1 \in RowIndexes, r2 \in RowIndexes, r3 \in RowIndexes,
        c1 \in ColumnIndexes, c2 \in ColumnIndexes, c3 \in ColumnIndexes}

InitTable ==
    /\ table \in NoCellTables \cup OneCellTables \cup ThreeCellTables
    /\ table_html = <<>>
    /\ rows = <<>>
    /\ tpc = "call"
    /\ document_intelligence_results = Doc(<<>>, None, None)
    /\ use_layout = FALSE
    /\ model_id = ModelId(FALSE)
    /\ pc = "idle"
    /\ roles_start = <<>>
    /\ roles_end = <<>>
    /\ page_num = 0
    /\ offset = 0
    /\ page_map = <<>>
    /\ outcome = Pending

\* lines 49-56
TableBegin ==
    /\ tpc = "call"
    /\ table_html' = <<"<table>">>
    /\ rows' = TableRows(table)
    /\ tpc' = "rows"
    /\ UNCHANGED table
    /\ UNCHANGED callVars

\* lines 57-67: one iteration of "for row_cells in rows"
TableRow ==
    /\ tpc = "rows"
    /\ rows # <<>>
    /\ table_html' = table_html \o RowHtml(Head(rows))
    /\ rows' = Tail(rows)
    /\ UNCHANGED <<table, tpc>>
    /\ UNCHANGED callVars

\* lines 68-69
TableEnd ==
    /\ tpc = "rows"
    /\ rows = <<>>
    /\ table_html' = table_html \o <<"</table>">>
    /\ tpc' = "done"
    /\ UNCHANGED <<table, rows>>
    /\ UNCHANGED callVars

NextTable == TableBegin \/ TableRow \/ TableEnd

SpecTable == InitTable /\ [][NextTable]_vars

\* the stepwise call and the operator the page loop uses are one function
TableStepsAgree == tpc = "done" => table_html = TableToHtml(table)

\* a cell as C8 describes it
ClaimedCell(c) ==
    LET tag == IF c.kind = Some("columnHeader") THEN "th" ELSE "td"
        colspan == IF c.column_span \in {Some(v) : v \in 2..(MaxSpan + 2)}
                   THEN " colspan=\"" \o ToString(c.column_span[1]) \o "\""
                   ELSE ""
        rowspan == IF c.row_span \in {Some(v) : v \in 2..(MaxSpan + 2)}
                   THEN " rowspan=\"" \o ToString(c.row_span[1]) \o "\""
                   ELSE ""
    IN << "<" \o tag \o colspan \o rowspan \o ">" >>
       \o HtmlEscape(c.content)
       \o << "</" \o tag \o ">" >>

CellsOfRow(i) == {k \in 1..Len(table.cells) : table.cells[k].row_index = i}

\* the ways to list row i's cells, each once, in increasing column_index order
OrderingsOfRow(i) ==
    {f \in [1..Cardinality(CellsOfRow(i)) -> CellsOfRow(i)] :
        /\ \A a, b \in DOMAIN f : a # b => f[a] # f[b]
        /\ \A a, b \in DOMAIN f :
              a < b => table.cells[f[a]].column_index
                         <= table.cells[f[b]].column_index}

ClaimedRow(f) ==
    <<"<tr>">>
    \o Concat([j \in DOMAIN f |-> ClaimedCell(table.cells[f[j]])])
    \o <<"</tr>">>

\* rest is the <tr> blocks of rows i..row_count-1 and then </table>
RECURSIVE RowsFrom(_, _)
RowsFrom(rest, i) ==
    IF i >= table.row_count THEN rest = <<"</table>">>
    ELSE \E f \in OrderingsOfRow(i) :
            LET blk == ClaimedRow(f) IN
            /\ Len(rest) >= Len(blk)
            /\ SubSeq(rest, 1, Len(blk)) = blk
            /\ RowsFrom(SubSeq(rest, Len(blk) + 1, Len(rest)), i + 1)

\* C8: the rendering is <table>, then one <tr>...</tr> block per row index
\* 0..row_count-1 in increasing order, each with that row's cells in
\* increasing column_index order, a cell being <th> when its kind is
\* columnHeader and <td> otherwise, with colspan="N" exactly when column_span
\* > 1 and rowspan="N" exactly when row_span > 1, then </table>; a cell of a
\* row index outside 0..row_count-1 is not rendered.
C8_TableRendering ==
    tpc = "done" =>
       /\ table_html # <<>>
       /\ Head(table_html) = "<table>"
       /\ RowsFrom(Tail(table_html), 0)
       /\ Occurrences(table_html, <<"<tr>">>) = table.row_count
       /\ Occurrences(table_html, <<"</tr>">>) = table.row_count

C8_Witness ==
    /\ tpc = "done"
    /\ table.row_count = 2
    /\ Len(table.cells) = 3
    /\ table.cells[1].row_index = 1
    /\ table.cells[2].row_index = 1
    /\ table.cells[1].column_index > table.cells[2].column_index
    /\ table.cells[3].row_index = 2
    /\ table_html = <<"<table>", "<tr>", "</tr>", "<tr>",
                      "<td colspan=\"2\">", "B", "</td>",
                      "<th>", "A", "</th>", "</tr>", "</table>">>

====
